---- MODULE Spec2Model ----
(***************************************************************************)
(* Scoring engine of the Financial Risk Assessment Calculator              *)
(* (src/streamlit_app.py): the sub-score mapping functions, the two        *)
(* weighted aggregations and the weight tables.                            *)
(*                                                                         *)
(* Numbers.  The program computes on Python floats.  The model computes    *)
(* on exact fixed-point numbers:                                           *)
(*   - a real-valued argument (an SLI, a ratio, a percentage) is an        *)
(*     integer count of 1/AU-ths, so the real 1.5 is 3*AU \div 2;          *)
(*   - a sub-score or a score is an integer count of 1/U-ths of a point,   *)
(*     so the score 40.0 is 40*U.                                          *)
(* U is a multiple of every bracket width the mapping functions divide by, *)
(* so every interpolation below is exact and no \div truncates.            *)
(* Ages, dependents counts and weights are plain integers.                 *)
(***************************************************************************)
EXTENDS Integers, FiniteSets, Sequences, TLC

VARIABLES
    WEIGHTS,          \* module global WEIGHTS (capacity weight table)
    REQ_WEIGHTS,      \* module global REQ_WEIGHTS (requirement weight table)
    call,             \* the function being applied
    pc,               \* "ready" | "returned" | "raised"
    x,                \* real-valued argument of a mapping function (1/AU units)
    d,                \* integer argument (age, dependents)
    s,                \* string argument (industry category)
    subscores,        \* argument of compute_risk_capacity: factor name -> sub-score
    rrr,              \* arguments of compute_risk_requirement
    real_req_pct,
    shortfall_pct,
    draw_ratio,
    result,           \* the returned float (1/U units)
    req_subscores,    \* the sub-score dict compute_risk_requirement returns
    error,            \* the exception raised, "none" if none
    inputs,           \* main: the values of the input widgets
    auto_update,      \* main: the "Auto-update while editing" checkbox
    fp_tie_up,        \* how the floats of this run's two averages round when
                      \* they are halfway between two tenths
    sli_value,        \* main: locals of the results block
    income_ratio,
    months,
    capacity_score,
    requirement_score,
    diff,
    align_msg,        \* main: the alignment band and the number it reports
    seen,             \* the inputs and results of the first evaluation the page
                      \* showed, for comparing later evaluations with it
    scenario          \* main: the sensitivity button whose block ran in the
                      \* last script run, its subs2 and the capacity it wrote

\* the variables of main()
mainvars == <<inputs, auto_update, fp_tie_up, sli_value, income_ratio, months,
              capacity_score, requirement_score, diff, align_msg, seen,
              scenario>>

vars == <<WEIGHTS, REQ_WEIGHTS, call, pc, x, d, s, subscores, rrr, real_req_pct,
          shortfall_pct, draw_ratio, result, req_subscores, error, mainvars>>

(***************************************************************************)
(* Bounds of the model and the fixed-point scales.                         *)
(***************************************************************************)
Res == 2                 \* grid resolution: arguments are multiples of 1/(6*Res)
AU == 6 * Res            \* argument units per 1.0 (halves and thirds are exact)
U == 6000 * AU           \* score units per point
DEC == 100 * AU          \* units per 1.0 of a decimal rate (rrr), so that
                         \* rrr * 100 is again in 1/AU units
NegSpan == 2             \* real arguments start at -NegSpan
MaxSLI == 205            \* largest SLI argument
MaxMetric == 50          \* largest argument of the other real-valued mappings
MaxAge == 70             \* largest age
MaxDependents == 6       \* largest dependents count
MaxReq == 11             \* largest percentage passed to compute_risk_requirement
MaxDraw == 3             \* largest drawdown ratio passed to compute_risk_requirement

Min(a, b) == IF a <= b THEN a ELSE b
Max(a, b) == IF a >= b THEN a ELSE b

(***************************************************************************)
(* Capacity mapping functions.                                             *)
(***************************************************************************)
\* lo + (v - v_lo) / (v_hi - v_lo) * (hi - lo), with v, v_lo, v_hi in 1/AU
\* units (v_lo2, v_hi2 are the bracket edges DOUBLED, so that 1.5 and 2.5
\* are integers) and lo, hi in points.  The result is in 1/U units.
\* The slope (hi - lo) * U / ((v_hi2 - v_lo2) * AU) is a whole number for every
\* bracket of the program.
Interp(v, v_lo2, v_hi2, lo, hi) ==
    lo * U + (2 * v - v_lo2 * AU) * (((hi - lo) * U) \div ((v_hi2 - v_lo2) * AU))

\* the four interpolation formulas of map_sli, one per bracket
sli_bracket_1_5(sli) == Interp(sli, 2, 10, 1, 40)
\* mutant: the (5,20] bracket rises to 85 instead of 80
sli_bracket_5_20_to_85(sli) == Interp(sli, 10, 40, 40, 85)
sli_bracket_5_20(sli) == Interp(sli, 10, 40, 40, 80)
\* mutant: the (20,50] bracket starts at 75 instead of 80
sli_bracket_20_50_from_75(sli) == Interp(sli, 40, 100, 75, 95)
sli_bracket_20_50(sli) == Interp(sli, 40, 100, 80, 95)
\* mutant: the last bracket rises to 110 and is not capped at 100
sli_bracket_over_50_to_110(sli) == Interp(Min(sli, 200 * AU), 100, 400, 95, 110)
\* mutant: the last bracket falls from 95 to 50
sli_bracket_over_50_falling(sli) ==
    Min(Interp(Min(sli, 200 * AU), 100, 400, 95, 50), 100 * U)
sli_bracket_over_50(sli) ==
    Min(Interp(Min(sli, 200 * AU), 100, 400, 95, 100), 100 * U)

map_sli(sli) ==
    IF sli <= 1 * AU THEN 0
    ELSE IF 1 * AU < sli /\ sli <= 5 * AU THEN sli_bracket_1_5(sli)
    ELSE IF 5 * AU < sli /\ sli <= 20 * AU THEN sli_bracket_5_20(sli)
    ELSE IF 20 * AU < sli /\ sli <= 50 * AU THEN sli_bracket_20_50(sli)
    ELSE IF sli > 50 * AU THEN sli_bracket_over_50(sli)
    ELSE 0

\* the three interpolation formulas of map_income_ratio, one per bracket
income_bracket_1_15(r) == Interp(r, 2, 3, 10, 40)
\* mutant: the (1.5,2.5] bracket starts at 45 instead of 40
income_bracket_15_25_from_45(r) == Interp(r, 3, 5, 45, 75)
income_bracket_15_25(r) == Interp(r, 3, 5, 40, 75)
income_bracket_over_25(r) ==
    Min(Interp(Min(r, 10 * AU), 5, 20, 75, 100), 100 * U)

map_income_ratio(r) ==
    IF 2 * r <= 2 * AU THEN 10 * U
    ELSE IF 2 * AU < 2 * r /\ 2 * r <= 3 * AU THEN income_bracket_1_15(r)
    ELSE IF 3 * AU < 2 * r /\ 2 * r <= 5 * AU THEN income_bracket_15_25(r)
    ELSE income_bracket_over_25(r)

\* the three interpolation formulas of map_emergency_months, one per bracket
months_bracket_1_3(m) == Interp(m, 2, 6, 20, 40)
\* mutant: the (3,6] bracket starts at 45 instead of 40
months_bracket_3_6_from_45(m) == Interp(m, 6, 12, 45, 70)
months_bracket_3_6(m) == Interp(m, 6, 12, 40, 70)
\* mutant: the months are capped at 12 instead of 24
months_bracket_over_6_cap_12(m) ==
    Min(Interp(Min(m, 12 * AU), 12, 48, 70, 100), 100 * U)
months_bracket_over_6(m) ==
    Min(Interp(Min(m, 24 * AU), 12, 48, 70, 100), 100 * U)

map_emergency_months(m) ==
    IF m <= 1 * AU THEN 5 * U
    ELSE IF 1 * AU < m /\ m <= 3 * AU THEN months_bracket_1_3(m)
    ELSE IF 3 * AU < m /\ m <= 6 * AU THEN months_bracket_3_6(m)
    ELSE months_bracket_over_6(m)

\* mutant: "Unstable" scores 15 instead of 25
map_industry_unstable_15(str) ==
    IF str = "Stable" THEN 90 * U
    ELSE IF str = "Moderate" THEN 60 * U
    ELSE IF str = "Unstable" THEN 15 * U
    ELSE 60 * U

map_industry(str) ==
    IF str = "Stable" THEN 90 * U
    ELSE IF str = "Moderate" THEN 60 * U
    ELSE IF str = "Unstable" THEN 25 * U
    ELSE 60 * U

\* mutant: the scores of the 41-55 and 56-65 brackets are exchanged
map_age_exchanged(age) ==
    IF age <= 30 THEN 90 * U
    ELSE IF 31 <= age /\ age <= 40 THEN 75 * U
    ELSE IF 41 <= age /\ age <= 55 THEN 30 * U
    ELSE IF 56 <= age /\ age <= 65 THEN 50 * U
    ELSE 10 * U

map_age(age) ==
    IF age <= 30 THEN 90 * U
    ELSE IF 31 <= age /\ age <= 40 THEN 75 * U
    ELSE IF 41 <= age /\ age <= 55 THEN 50 * U
    ELSE IF 56 <= age /\ age <= 65 THEN 30 * U
    ELSE 10 * U

\* mutant: right-closed brackets (<= in place of <)
map_growth_right_closed(g) ==
    IF g <= 0 THEN 10 * U
    ELSE IF g <= 2 * AU THEN 30 * U
    ELSE IF g <= 5 * AU THEN 60 * U
    ELSE 85 * U

map_growth(g) ==
    IF g < 0 THEN 10 * U
    ELSE IF g < 2 * AU THEN 30 * U
    ELSE IF g < 5 * AU THEN 60 * U
    ELSE 85 * U

\* mutant: the scores for 3 and for 4 or more dependents are exchanged
map_dependents_exchanged(n) ==
    IF n = 0 THEN 90 * U
    ELSE IF n = 1 THEN 70 * U
    ELSE IF n = 2 THEN 50 * U
    ELSE IF n = 3 THEN 15 * U
    ELSE 30 * U

map_dependents(n) ==
    IF n = 0 THEN 90 * U
    ELSE IF n = 1 THEN 70 * U
    ELSE IF n = 2 THEN 50 * U
    ELSE IF n = 3 THEN 30 * U
    ELSE 15 * U

(***************************************************************************)
(* Weight tables and the two aggregations.                                 *)
(***************************************************************************)
\* mutant: Growth weighs 10, so the weights sum to 102
WEIGHTS_literal_102 ==
    [SLI |-> 25, Income |-> 20, Expenses |-> 15, Industry |-> 12, Age |-> 12,
     Growth |-> 10, Dependents |-> 8]

\* the dict literal bound to the module global WEIGHTS
WEIGHTS_literal ==
    [SLI |-> 25, Income |-> 20, Expenses |-> 15, Industry |-> 12, Age |-> 12,
     Growth |-> 8, Dependents |-> 8]

\* the dict literal bound to the module global REQ_WEIGHTS
REQ_WEIGHTS_literal ==
    [RRR |-> 40, RealReq |-> 25, Shortfall |-> 20, DrawImpact |-> 15]

\* mutant: the local table holds the weights of the global one
REQ_WEIGHTS_local_as_global ==
    [RRR |-> 40, RealReq |-> 25, Shortfall |-> 20, DrawPressure |-> 15]
\* the REQ_WEIGHTS local to compute_risk_requirement, which shadows the global
REQ_WEIGHTS_local ==
    [RRR |-> 35, RealReq |-> 25, Shortfall |-> 25, DrawPressure |-> 15]

\* sum(w[k] * subs[k] for k in keys)
RECURSIVE SumOver(_, _, _)
SumOver(keys, w, subs) ==
    IF keys = {} THEN 0
    ELSE LET k == CHOOSE k \in keys : TRUE
         IN  w[k] * subs[k] + SumOver(keys \ {k}, w, subs)

\* mutant: truncates to one decimal place instead of rounding
round1_truncating(v, up) == (v \div (U \div 10)) * (U \div 10)

\* round(v, 1): the multiple of 0.1 nearest to v.  A value halfway between two
\* multiples of 0.1 goes to either of them: Python rounds the binary float,
\* which lies just below or just above a decimal tie (12.35 is stored below
\* and gives 12.3, 12.55 above and gives 12.6) and goes to the even neighbour
\* when the tie is exact in binary (12.25 gives 12.2).  `up` is that outcome.
round1(v, up) ==
    LET step == U \div 10
        q == v \div step
        r == v % step
    IN  IF 2 * r < step THEN q * step
        ELSE IF 2 * r > step THEN (q + 1) * step
        ELSE IF up THEN (q + 1) * step ELSE q * step

\* max(0.0, min(100.0, score))
clamp(score) == Max(0, Min(100 * U, score))

\* mutant: rounds the score without clamping it
compute_risk_capacity_unclamped(subs, up) ==
    round1(SumOver(DOMAIN WEIGHTS, WEIGHTS, subs) \div 100, up)

\* compute_risk_capacity, for a sub-score dict that has every key of WEIGHTS
compute_risk_capacity(subs, up) ==
    LET total == SumOver(DOMAIN WEIGHTS, WEIGHTS, subs)
        score == total \div 100
    IN  round1(clamp(score), up)

\* rrr * 100.0: a decimal rate as a percentage
rrr_pct_of(r) == (r * 100) \div (DEC \div AU)

\* the four inline sub-scores of compute_risk_requirement
req_rrr_s(r) ==
    LET rrr_pct == rrr_pct_of(r)
    IN  IF rrr_pct <= 2 * AU THEN 10 * U
        ELSE IF rrr_pct <= 5 * AU THEN 35 * U
        ELSE IF rrr_pct <= 10 * AU THEN 65 * U
        ELSE 90 * U

req_real_s(real) ==
    IF real <= 0 THEN 10 * U
    ELSE IF real <= 2 * AU THEN 40 * U
    ELSE IF real <= 5 * AU THEN 70 * U
    ELSE 90 * U

req_short_s(short) ==
    IF short <= 0 THEN 10 * U
    ELSE IF short <= 2 * AU THEN 30 * U
    ELSE IF short <= 5 * AU THEN 60 * U
    ELSE 90 * U

req_draw_s(ratio) ==
    IF 2 * ratio <= AU THEN 10 * U
    ELSE IF ratio <= 1 * AU THEN 40 * U
    ELSE IF ratio <= 2 * AU THEN 70 * U
    ELSE 90 * U

\* subs, the dict compute_risk_requirement builds and returns
req_subs(r, real, short, ratio) ==
    [RRR |-> req_rrr_s(r), RealReq |-> req_real_s(real),
     Shortfall |-> req_short_s(short), DrawPressure |-> req_draw_s(ratio)]

\* req_score, the score compute_risk_requirement returns
req_score(r, real, short, ratio, up) ==
    LET subs == req_subs(r, real, short, ratio)
        total == SumOver(DOMAIN REQ_WEIGHTS_local, REQ_WEIGHTS_local, subs)
    IN  round1(clamp(total \div 100), up)

(***************************************************************************)
(* Requirement mapping functions (defined by the module, called nowhere).  *)
(***************************************************************************)
\* mutant: the top bracket starts at 80 instead of 85
map_rrr_top_from_80(r) ==
    LET p == rrr_pct_of(r)
    IN  IF p <= 3 * AU THEN 0
        ELSE IF p <= 6 * AU THEN ((p - 3 * AU) * 25 * U) \div ((6 - 3) * AU)
        ELSE IF p <= 10 * AU
            THEN 25 * U + ((p - 6 * AU) * 35 * U) \div ((10 - 6) * AU)
        ELSE IF p <= 15 * AU
            THEN 60 * U + ((p - 10 * AU) * 25 * U) \div ((15 - 10) * AU)
        ELSE 80 * U + (Min(p - 15 * AU, 15 * AU) * 15 * U) \div (15 * AU)

map_rrr(r) ==
    LET p == rrr_pct_of(r)
    IN  IF p <= 3 * AU THEN 0
        ELSE IF p <= 6 * AU THEN ((p - 3 * AU) * 25 * U) \div ((6 - 3) * AU)
        ELSE IF p <= 10 * AU
            THEN 25 * U + ((p - 6 * AU) * 35 * U) \div ((10 - 6) * AU)
        ELSE IF p <= 15 * AU
            THEN 60 * U + ((p - 10 * AU) * 25 * U) \div ((15 - 10) * AU)
        ELSE 85 * U + (Min(p - 15 * AU, 15 * AU) * 15 * U) \div (15 * AU)

map_realreq(real_pct) ==
    IF real_pct <= 0 THEN 0
    ELSE IF real_pct <= 2 * AU THEN (real_pct * 25 * U) \div (2 * AU)
    ELSE IF real_pct <= 5 * AU
        THEN 25 * U + ((real_pct - 2 * AU) * 40 * U) \div ((5 - 2) * AU)
    ELSE 65 * U + (Min(real_pct - 5 * AU, 10 * AU) * 35 * U) \div (10 * AU)

\* mutant: the linear mapping without its cap at 100
map_shortfall_uncapped(short_pct) ==
    IF short_pct <= 0 THEN 0
    ELSE short_pct * ((100 * U) \div (10 * AU))

\* mutant: no branch for a shortfall of zero or less
map_shortfall_signed(short_pct) ==
    Min(100 * U, short_pct * ((100 * U) \div (10 * AU)))

map_shortfall(short_pct) ==
    IF short_pct <= 0 THEN 0
    ELSE Min(100 * U, short_pct * ((100 * U) \div (10 * AU)))

map_drawimpact(ratio) ==
    IF 2 * ratio <= AU THEN 0
    ELSE IF ratio <= 1 * AU THEN 25 * U
    ELSE IF 2 * ratio <= 3 * AU THEN 60 * U
    ELSE 100 * U

(***************************************************************************)
(* Argument sets.                                                          *)
(***************************************************************************)
SliDom == (-(NegSpan * AU))..(MaxSLI * AU)
RealDom == (-(NegSpan * AU))..(MaxMetric * AU)
AgeDom == 0..MaxAge
DependentsDom == 0..MaxDependents
Industries == {"Stable", "Moderate", "Unstable", "Startup"}
ReqDom == {n * AU : n \in (-NegSpan)..MaxReq}
DrawDom == {n * (AU \div 2) : n \in 0..(2 * MaxDraw)}

RealCalls ==
    {"map_income_ratio", "map_emergency_months", "map_growth", "map_rrr",
     "map_realreq", "map_shortfall", "map_drawimpact"}

\* sub-score values handed to compute_risk_capacity: below the range, its two
\* ends, 0.2 (whose weighted share falls between two tenths) and above it
SubVals == {-(40 * U), 0, U \div 5, 100 * U, 140 * U}
Factors == DOMAIN WEIGHTS_literal
\* sub-score dicts with every factor, and with some factors missing
FullSubscoreSets == [Factors -> SubVals]
PartialSubscoreSets ==
    UNION {[Factors \ {k1, k2} -> {0, 100 * U}] : k1 \in Factors, k2 \in Factors}

\* weight tables: the program's, and the program's with one weight changed
WeightTables ==
    {WEIGHTS_literal} \cup
    {[WEIGHTS_literal EXCEPT ![k] = WEIGHTS_literal[k] + dw] :
        k \in Factors, dw \in {-5, 5}}
InRangeVals == {0, 50 * U, 100 * U}

NoDict == <<>>

(***************************************************************************)
(* Initial states: a function and the arguments it is about to be applied  *)
(* to.                                                                     *)
(***************************************************************************)
InitGlobals ==
    /\ WEIGHTS = WEIGHTS_literal
    /\ REQ_WEIGHTS = REQ_WEIGHTS_literal

\* no sensitivity button's block has run
NoScenario == [button |-> "none", subs2 |-> NoDict, new_capacity |-> 0]

\* the values main's locals have when the results block has not run
NoAlignment == [band |-> "none", points |-> 0]
NoResults ==
    /\ sli_value = 0 /\ income_ratio = 0 /\ months = 0
    /\ capacity_score = 0 /\ requirement_score = 0
    /\ diff = 0 /\ align_msg = NoAlignment

\* main() is not running
InitNoMain ==
    /\ inputs = NoDict
    /\ auto_update = TRUE
    /\ fp_tie_up = NoDict
    /\ seen = NoDict
    /\ scenario = NoScenario
    /\ NoResults

InitNoCall ==
    /\ pc = "ready"
    /\ result = 0
    /\ req_subscores = NoDict
    /\ error = "none"
    /\ InitNoMain

InitReqArgs ==
    /\ call = "compute_risk_requirement"
    /\ rrr \in ReqDom
    /\ real_req_pct \in ReqDom
    /\ shortfall_pct \in ReqDom
    /\ draw_ratio \in DrawDom
    /\ x = 0 /\ d = 0 /\ s = "" /\ subscores = NoDict

NoReqArgs == rrr = 0 /\ real_req_pct = 0 /\ shortfall_pct = 0 /\ draw_ratio = 0

InitMap ==
    /\ InitGlobals
    /\ InitNoCall
    /\ \/ /\ call = "map_sli"
          /\ x \in SliDom
          /\ d = 0 /\ s = "" /\ subscores = NoDict /\ NoReqArgs
       \/ /\ call \in RealCalls
          /\ x \in RealDom
          /\ d = 0 /\ s = "" /\ subscores = NoDict /\ NoReqArgs
       \/ /\ call = "map_industry"
          /\ s \in Industries
          /\ x = 0 /\ d = 0 /\ subscores = NoDict /\ NoReqArgs
       \/ /\ call = "map_age"
          /\ d \in AgeDom
          /\ x = 0 /\ s = "" /\ subscores = NoDict /\ NoReqArgs
       \/ /\ call = "map_dependents"
          /\ d \in DependentsDom
          /\ x = 0 /\ s = "" /\ subscores = NoDict /\ NoReqArgs
       \/ InitReqArgs

InitAgg ==
    /\ InitGlobals
    /\ InitNoCall
    /\ \/ /\ call = "compute_risk_capacity"
          /\ subscores \in FullSubscoreSets \cup PartialSubscoreSets
          /\ x = 0 /\ d = 0 /\ s = "" /\ NoReqArgs
       \/ InitReqArgs

InitWeights ==
    /\ WEIGHTS \in WeightTables
    /\ REQ_WEIGHTS = REQ_WEIGHTS_literal
    /\ InitNoCall
    /\ call = "compute_risk_capacity"
    /\ subscores \in [Factors -> InRangeVals]
    /\ x = 0 /\ d = 0 /\ s = "" /\ NoReqArgs

(***************************************************************************)
(* Actions: one per function, the whole call from entry to return or raise.*)
(***************************************************************************)
args == <<x, d, s, subscores, rrr, real_req_pct, shortfall_pct, draw_ratio>>

Return(name, v) ==
    /\ pc = "ready"
    /\ call = name
    /\ pc' = "returned"
    /\ result' = v
    /\ UNCHANGED <<WEIGHTS, REQ_WEIGHTS, call, args, req_subscores, error, mainvars>>

Call_map_sli == Return("map_sli", map_sli(x))
Call_map_income_ratio == Return("map_income_ratio", map_income_ratio(x))
Call_map_emergency_months == Return("map_emergency_months", map_emergency_months(x))
Call_map_industry == Return("map_industry", map_industry(s))
Call_map_age == Return("map_age", map_age(d))
Call_map_growth == Return("map_growth", map_growth(x))
Call_map_dependents == Return("map_dependents", map_dependents(d))
Call_map_rrr == Return("map_rrr", map_rrr(x))
Call_map_realreq == Return("map_realreq", map_realreq(x))
Call_map_shortfall == Return("map_shortfall", map_shortfall(x))
Call_map_drawimpact == Return("map_drawimpact", map_drawimpact(x))

\* mutant: subscores.get(k, 0.0), a missing factor counts as 0
Call_compute_risk_capacity_get ==
    /\ pc = "ready"
    /\ call = "compute_risk_capacity"
    /\ \E up \in BOOLEAN :
          result' = compute_risk_capacity(
                        [k \in DOMAIN WEIGHTS |->
                            IF k \in DOMAIN subscores THEN subscores[k] ELSE 0], up)
    /\ pc' = "returned"
    /\ UNCHANGED <<WEIGHTS, REQ_WEIGHTS, call, args, req_subscores, error, mainvars>>

\* mutant: validates the weight table before aggregating
Call_compute_risk_capacity_validating ==
    /\ pc = "ready"
    /\ call = "compute_risk_capacity"
    /\ IF SumOver(DOMAIN WEIGHTS, WEIGHTS, [k \in DOMAIN WEIGHTS |-> 1]) # 100
       THEN /\ pc' = "raised"
            /\ error' = "InvalidWeightTable"
            /\ result' = result
       ELSE /\ \E up \in BOOLEAN : result' = compute_risk_capacity(subscores, up)
            /\ pc' = "returned"
            /\ error' = error
    /\ UNCHANGED <<WEIGHTS, REQ_WEIGHTS, call, args, req_subscores, mainvars>>

\* subscores[k] raises KeyError at the first key of WEIGHTS the dict lacks
Call_compute_risk_capacity ==
    /\ pc = "ready"
    /\ call = "compute_risk_capacity"
    /\ IF DOMAIN WEIGHTS \subseteq DOMAIN subscores
       THEN /\ \E up \in BOOLEAN : result' = compute_risk_capacity(subscores, up)
            /\ pc' = "returned"
            /\ error' = error
       ELSE /\ pc' = "raised"
            /\ error' = "KeyError"
            /\ result' = result
    /\ UNCHANGED <<WEIGHTS, REQ_WEIGHTS, call, args, req_subscores, mainvars>>

Call_compute_risk_requirement ==
    /\ pc = "ready"
    /\ call = "compute_risk_requirement"
    /\ \E up \in BOOLEAN :
          result' = req_score(rrr, real_req_pct, shortfall_pct, draw_ratio, up)
    /\ req_subscores' = req_subs(rrr, real_req_pct, shortfall_pct, draw_ratio)
    /\ pc' = "returned"
    /\ UNCHANGED <<WEIGHTS, REQ_WEIGHTS, call, args, error, mainvars>>

NextMap ==
    \/ Call_map_sli
    \/ Call_map_income_ratio
    \/ Call_map_emergency_months
    \/ Call_map_industry
    \/ Call_map_age
    \/ Call_map_growth
    \/ Call_map_dependents
    \/ Call_map_rrr
    \/ Call_map_realreq
    \/ Call_map_shortfall
    \/ Call_map_drawimpact
    \/ Call_compute_risk_requirement

NextAgg ==
    \/ Call_compute_risk_capacity
    \/ Call_compute_risk_requirement

NextWeights == Call_compute_risk_capacity

\* the mapping functions and compute_risk_requirement, applied to any argument
SpecMap == InitMap /\ [][NextMap]_vars
\* the two aggregations under the program's weight tables
SpecAgg == InitAgg /\ [][NextAgg]_vars
\* compute_risk_capacity under any value of the global WEIGHTS
SpecWeights == InitWeights /\ [][NextWeights]_vars

(***************************************************************************)
(* main(): the metrics derived from the inputs.                            *)
(* Dollar amounts, ages, dependents and years are whole numbers, as the    *)
(* widgets deliver them; percentages are in 1/AU units.                    *)
(***************************************************************************)
\* the smallest whole number >= a / b, for b > 0
CeilDiv(a, b) == -((-a) \div b)

\* monthly_expenses = (annual_fixed + annual_variable) / 12.0, counted in
\* twelfths of a dollar
MonthsPerYear == 12
monthly_expenses_of(annual_fixed, annual_variable) ==
    ((annual_fixed + annual_variable) * MonthsPerYear) \div 12

\* mutant: the denominator is floored at 100 instead of 1
sli_value_of_floor_100(investable_assets, annual_withdrawals) ==
    (investable_assets * AU) \div Max(100, annual_withdrawals)
\* sli_value = investable_assets / max(1.0, annual_withdrawals)
sli_value_of(investable_assets, annual_withdrawals) ==
    (investable_assets * AU) \div Max(1, annual_withdrawals)

\* mutant: the variable expenses are left out of the denominator
income_ratio_of_fixed_only(annual_income, annual_fixed, annual_variable) ==
    (annual_income * AU) \div Max(1, annual_fixed)
\* income_ratio = annual_income / max(1.0, (annual_fixed + annual_variable))
income_ratio_of(annual_income, annual_fixed, annual_variable) ==
    (annual_income * AU) \div Max(1, annual_fixed + annual_variable)

\* months = investable_assets / max(1.0, monthly_expenses)
months_of(investable_assets, monthly_expenses) ==
    (investable_assets * MonthsPerYear * AU)
        \div Max(1 * MonthsPerYear, monthly_expenses)

\* The three quotients above are exact when the inputs divide evenly on the
\* 1/AU grid; the input sets below hold such inputs only.
OnGrid(in) ==
    /\ (in.investable_assets * AU) % Max(1, in.annual_withdrawals) = 0
    /\ (in.annual_income * AU) % Max(1, in.annual_fixed + in.annual_variable) = 0
    /\ (in.investable_assets * MonthsPerYear * AU)
          % Max(MonthsPerYear, in.annual_fixed + in.annual_variable) = 0

(***************************************************************************)
(* math.pow(T / C, 1.0 / n) - 1.0 for whole n >= 1: an n-th root, found    *)
(* with exact whole-number arithmetic on numbers of any size (sequences of *)
(* base-1000 digits, least significant first).                             *)
(***************************************************************************)
Base == 1000

\* a * k + carry, for a digit sequence a and whole numbers k, carry >= 0
RECURSIVE BigMulAdd(_, _, _)
BigMulAdd(a, k, carry) ==
    IF a = <<>>
    THEN IF carry = 0 THEN <<>>
         ELSE <<carry % Base>> \o BigMulAdd(<<>>, k, carry \div Base)
    ELSE LET p == Head(a) * k + carry
         IN  <<p % Base>> \o BigMulAdd(Tail(a), k, p \div Base)

\* c * k^n as a digit sequence
RECURSIVE BigTimesPower(_, _, _)
BigTimesPower(c, k, n) ==
    IF n = 0 THEN BigMulAdd(<<1>>, c, 0)
    ELSE BigMulAdd(BigTimesPower(c, k, n - 1), k, 0)

\* a without its leading zero digits
RECURSIVE BigStrip(_)
BigStrip(a) ==
    IF a = <<>> \/ a[Len(a)] # 0 THEN a ELSE BigStrip(SubSeq(a, 1, Len(a) - 1))

\* a >= b, for stripped digit sequences of equal length
RECURSIVE BigGeqSameLen(_, _)
BigGeqSameLen(a, b) ==
    IF a = <<>> THEN TRUE
    ELSE IF a[Len(a)] # b[Len(b)] THEN a[Len(a)] > b[Len(b)]
    ELSE BigGeqSameLen(SubSeq(a, 1, Len(a) - 1), SubSeq(b, 1, Len(b) - 1))

BigGeq(a, b) ==
    LET sa == BigStrip(a)
        sb == BigStrip(b)
    IN  IF Len(sa) # Len(sb) THEN Len(sa) > Len(sb) ELSE BigGeqSameLen(sa, sb)

\* (1 + r/scale)^n >= T / C, that is C * (scale + r)^n >= T * scale^n
ReachesTarget(r, T, C, n, scale) ==
    BigGeq(BigTimesPower(C, scale + r, n), BigTimesPower(T, scale, n))

\* the least r in lo..hi with ReachesTarget(r, ...), by bisection
RECURSIVE LeastRate(_, _, _, _, _, _)
LeastRate(lo, hi, T, C, n, scale) ==
    IF lo >= hi THEN hi
    ELSE LET mid == (lo + hi) \div 2
         IN  IF ReachesTarget(mid, T, C, n, scale)
             THEN LeastRate(lo, mid, T, C, n, scale)
             ELSE LeastRate(mid + 1, hi, T, C, n, scale)

\* mutant: simple instead of compound growth, (T / C - 1) / n
required_return_simple(target_wealth, current_portfolio, horizon_years, scale) ==
    LET T == Max(1, target_wealth)
        C == Max(1, current_portfolio)
        n == Max(1, horizon_years)
    IN  CeilDiv(((T - C) \div C) * scale, n)

\* rrr = math.pow(T / C, 1.0 / n) - 1.0 with T, C, n floored at 1.0, counted
\* in 1/scale units and rounded UP to the next unit; it lies between -1 and
\* T / C - 1, where the search starts.  Every test the program
\* makes on rrr and on the percentages derived from it is a `<=` against a
\* value of the grid, so rounding up changes the outcome of none of them.
required_return(target_wealth, current_portfolio, horizon_years, scale) ==
    LET T == Max(1, target_wealth)
        C == Max(1, current_portfolio)
        n == Max(1, horizon_years)
    IN  LeastRate(-scale, scale * (CeilDiv(T, C) - 1), T, C, n, scale)

\* real_req_pct = (rrr * 100.0) - float(inflation)
real_req_pct_of(r, inflation) == rrr_pct_of(r) - inflation

\* shortfall_pct = real_req_pct - float(expected_return)
shortfall_pct_of(real, expected_return) == real - expected_return

\* avg_drawdown and drawdown_tolerance are counted in 1/DU units, fine enough
\* to hold the floor 0.0001 (AU of them) and its multiples
InverseEpsilon == 10000
DU == AU * InverseEpsilon

\* mutant: the tolerance is floored at 0.001 instead of 0.0001
draw_ratio_of_floor_001(avg_drawdown, drawdown_tolerance) ==
    CeilDiv(avg_drawdown * AU, Max(drawdown_tolerance, 10 * (DU \div InverseEpsilon)))
\* draw_ratio = float(avg_drawdown) / max(float(drawdown_tolerance), 0.0001),
\* in 1/AU units and rounded up to the grid like rrr (it is only ever tested
\* with `<=`)
draw_ratio_of(avg_drawdown, drawdown_tolerance) ==
    CeilDiv(avg_drawdown * AU, Max(drawdown_tolerance, DU \div InverseEpsilon))

(***************************************************************************)
(* main(): the alignment message.                                          *)
(***************************************************************************)
\* diff = round(capacity_score - requirement_score, 1); the difference of two
\* multiples of 0.1 is never halfway between two of them
align_diff(capacity, requirement) == round1(capacity - requirement, FALSE)

\* mutant: a difference of exactly 10 is not yet in the first branch
align_msg_of_strict(df) ==
    IF df > 10 * U THEN [band |-> "exceeds", points |-> df]
    ELSE IF -(10 * U) <= df /\ df < 10 * U THEN [band |-> "matches", points |-> df]
    ELSE [band |-> "below", points |-> -df]
\* the branch taken and the number handed to fmt_num
align_msg_of(df) ==
    IF df >= 10 * U THEN [band |-> "exceeds", points |-> df]
    ELSE IF -(10 * U) <= df /\ df < 10 * U THEN [band |-> "matches", points |-> df]
    ELSE [band |-> "below", points |-> -df]

(***************************************************************************)
(* main(): the page.  The form's widgets hold the inputs; every script run *)
(* either shows the results (submitted) or shows none.                     *)
(***************************************************************************)
\* the values the widgets start with
DefaultInputs ==
    [age |-> 39, dependents |-> 2, annual_income |-> 500000,
     annual_fixed |-> 30000, annual_variable |-> 30000, industry |-> "Moderate",
     expected_growth |-> 2 * AU, investable_assets |-> 500000,
     annual_withdrawals |-> 10000, target_wealth |-> 1500000,
     current_portfolio |-> 500000, horizon_years |-> 10, inflation |-> 2 * AU,
     expected_return |-> 6 * AU, avg_drawdown |-> 30 * DU,
     drawdown_tolerance |-> 15 * DU]

\* the amounts the widgets of the three cushions are edited to
AssetValues == {0, 30000, 500000}
IncomeValues == {0, 60000, 500000}
WithdrawalValues == {0, 10000}

\* the options of the industry radio
RadioOptions == {"Stable", "Moderate", "Unstable"}

\* inputs that vary the capacity side, zeros included
CapacityInputs ==
    {[DefaultInputs EXCEPT !.age = a, !.dependents = dep, !.annual_income = inc,
                           !.annual_fixed = fix, !.annual_variable = var,
                           !.industry = ind, !.expected_growth = g * AU,
                           !.investable_assets = assets,
                           !.annual_withdrawals = wd] :
        a \in {39}, dep \in {2}, inc \in IncomeValues,
        fix \in {0, 30000}, var \in {0, 30000}, ind \in RadioOptions,
        g \in {2}, assets \in AssetValues, wd \in WithdrawalValues}

\* target_wealth and current_portfolio, zeros included
GoalPairs ==
    {<<0, 0>>, <<1000, 0>>, <<0, 500000>>, <<1000, 500000>>,
     <<510000, 500000>>, <<525000, 500000>>, <<550000, 500000>>,
     <<1500000, 500000>>}

\* drawdowns: 0, 0.0002, 0.0003, 15 and 30; tolerances: 0, 0.0001, 15 and 30
Drawdowns == {0, 2 * AU, 3 * AU, 15 * DU, 30 * DU}
Tolerances == {0, 1 * AU, 15 * DU, 30 * DU}

\* inputs that vary the goal, zeros included
GoalInputs ==
    {[DefaultInputs EXCEPT !.target_wealth = tc[1], !.current_portfolio = tc[2],
                           !.horizon_years = n, !.inflation = infl * AU,
                           !.expected_return = er * AU] :
        tc \in GoalPairs, n \in {1, 10}, infl \in {0, 2}, er \in {-10, 0, 6}}

\* inputs that vary the drawdown and its tolerance, zeros included
DrawdownInputs ==
    {[DefaultInputs EXCEPT !.avg_drawdown = dd, !.drawdown_tolerance = tol] :
        dd \in Drawdowns, tol \in Tolerances}

\* inputs that vary the requirement side
RequirementInputs == GoalInputs \cup DrawdownInputs

\* inputs with a zero in every denominator at once, and with nothing but zeros
\* (the horizon has a minimum of 1)
ZeroInputs ==
    {[DefaultInputs EXCEPT !.annual_fixed = 0, !.annual_variable = 0,
                           !.annual_withdrawals = 0, !.target_wealth = 0,
                           !.current_portfolio = 0, !.drawdown_tolerance = 0],
     [age |-> 0, dependents |-> 0, annual_income |-> 0, annual_fixed |-> 0,
      annual_variable |-> 0, industry |-> "Moderate", expected_growth |-> 0,
      investable_assets |-> 0, annual_withdrawals |-> 0, target_wealth |-> 0,
      current_portfolio |-> 0, horizon_years |-> 1, inflation |-> 0,
      expected_return |-> 0, avg_drawdown |-> 0, drawdown_tolerance |-> 0]}

\* the inputs with the lowest and with the highest sub-score of every factor
ExtremeInputs ==
    {[DefaultInputs EXCEPT !.age = 66, !.dependents = 5, !.annual_income = 0,
                           !.industry = "Unstable", !.expected_growth = -(1 * AU),
                           !.investable_assets = 0,
                           !.target_wealth = 0, !.avg_drawdown = 0],
     [DefaultInputs EXCEPT !.age = 30, !.dependents = 0, !.annual_variable = 0,
                           !.industry = "Stable", !.expected_growth = 5 * AU,
                           !.annual_withdrawals = 0,
                           !.expected_return = -(10 * AU),
                           !.drawdown_tolerance = 0]}

InputSets ==
    {in \in CapacityInputs \cup RequirementInputs \cup ZeroInputs
               \cup ExtremeInputs : OnGrid(in)}

\* mutant: the dict has an eighth entry that WEIGHTS does not weigh
capacity_subscores_with_horizon(sli, ratio, m, in) ==
    [SLI |-> map_sli(sli),
     Income |-> map_income_ratio(ratio),
     Expenses |-> map_emergency_months(m),
     Industry |-> map_industry(in.industry),
     Age |-> map_age(in.age),
     Growth |-> map_growth(in.expected_growth),
     Dependents |-> map_dependents(in.dependents),
     Horizon |-> 50 * U]
\* mutant: the Income entry is mapped from the emergency months
capacity_subscores_income_from_months(sli, ratio, m, in) ==
    [SLI |-> map_sli(sli),
     Income |-> map_income_ratio(m),
     Expenses |-> map_emergency_months(m),
     Industry |-> map_industry(in.industry),
     Age |-> map_age(in.age),
     Growth |-> map_growth(in.expected_growth),
     Dependents |-> map_dependents(in.dependents)]
\* rrr for every goal the inputs hold, each root taken once
rrr_of ==
    [g \in {<<in.target_wealth, in.current_portfolio, in.horizon_years>> :
               in \in InputSets} |->
        required_return(g[1], g[2], g[3], DEC)]

\* the dict main builds for compute_risk_capacity
capacity_subscores(sli, ratio, m, in) ==
    [SLI |-> map_sli(sli),
     Income |-> map_income_ratio(ratio),
     Expenses |-> map_emergency_months(m),
     Industry |-> map_industry(in.industry),
     Age |-> map_age(in.age),
     Growth |-> map_growth(in.expected_growth),
     Dependents |-> map_dependents(in.dependents)]

Init ==
    /\ InitGlobals
    /\ call = "main"
    /\ pc = "start"
    /\ inputs \in InputSets
    /\ auto_update = TRUE
    /\ fp_tie_up \in [{"capacity", "requirement"} -> BOOLEAN]
    /\ seen = NoDict
    /\ scenario = NoScenario
    /\ NoResults
    /\ result = 0 /\ req_subscores = NoDict /\ error = "none"
    /\ x = 0 /\ d = 0 /\ s = "" /\ subscores = NoDict /\ NoReqArgs

\* the body of `if submitted:` up to the alignment message; each local is
\* bound once, in the order the code assigns it
ShowResults(in) ==
    \E monthly_expenses \in
          {monthly_expenses_of(in.annual_fixed, in.annual_variable)} :
    \E sli \in {sli_value_of(in.investable_assets, in.annual_withdrawals)} :
    \E ratio \in {income_ratio_of(in.annual_income, in.annual_fixed,
                                  in.annual_variable)} :
    \E m \in {months_of(in.investable_assets, monthly_expenses)} :
    \E subs \in {capacity_subscores(sli, ratio, m, in)} :
       /\ sli_value' = sli
       /\ income_ratio' = ratio
       /\ months' = m
       /\ subscores' = subs
       /\ IF DOMAIN WEIGHTS \subseteq DOMAIN subs
          THEN \E capacity \in {compute_risk_capacity(subs, fp_tie_up.capacity)} :
               \E r \in {rrr_of[<<in.target_wealth, in.current_portfolio,
                                  in.horizon_years>>]} :
               \E real \in {real_req_pct_of(r, in.inflation)} :
               \E short \in {shortfall_pct_of(real, in.expected_return)} :
               \E draw \in {draw_ratio_of(in.avg_drawdown,
                                          in.drawdown_tolerance)} :
               \E requirement \in
                     {req_score(r, real, short, draw, fp_tie_up.requirement)} :
               \E df \in {align_diff(capacity, requirement)} :
                  /\ capacity_score' = capacity
                  /\ rrr' = r
                  /\ real_req_pct' = real
                  /\ shortfall_pct' = short
                  /\ draw_ratio' = draw
                  /\ requirement_score' = requirement
                  /\ req_subscores' = req_subs(r, real, short, draw)
                  /\ diff' = df
                  /\ align_msg' = align_msg_of(df)
                  /\ pc' = "shown"
                  /\ error' = error
          ELSE /\ capacity_score' = 0
               /\ rrr' = 0 /\ real_req_pct' = 0 /\ shortfall_pct' = 0
               /\ draw_ratio' = 0
               /\ requirement_score' = 0
               /\ req_subscores' = NoDict
               /\ diff' = 0
               /\ align_msg' = NoAlignment
               /\ pc' = "raised"
               /\ error' = "KeyError"

\* a script run that skips `if submitted:`
ShowNothing ==
    /\ sli_value' = 0 /\ income_ratio' = 0 /\ months' = 0
    /\ subscores' = NoDict
    /\ capacity_score' = 0
    /\ rrr' = 0 /\ real_req_pct' = 0 /\ shortfall_pct' = 0 /\ draw_ratio' = 0
    /\ requirement_score' = 0
    /\ req_subscores' = NoDict
    /\ diff' = 0
    /\ align_msg' = NoAlignment
    /\ pc' = "hidden"
    /\ error' = error

\* the sub-scores and scores an evaluation shows
Outputs ==
    [subscores |-> subscores, req_subscores |-> req_subscores,
     capacity_score |-> capacity_score, requirement_score |-> requirement_score]

\* the four sensitivity buttons
Buttons == {"Income -20%", "Income +20%", "Assets -20%", "Assets +20%"}

\* new_income_ratio and sli2: the ratio with the income, or the assets, times
\* 0.8 or 1.2 (in 1/AU units, rounded down to the grid)
shocked_ratio(numerator, tenths, denominator) ==
    (numerator * tenths * AU) \div (10 * Max(1, denominator))

\* mutant: the asset scenarios also move the Expenses entry with the assets
subs2_of_moving_expenses(button, subs, in) ==
    IF button = "Income -20%"
    THEN [subs EXCEPT !.Income = map_income_ratio(
             shocked_ratio(in.annual_income, 8,
                           in.annual_fixed + in.annual_variable))]
    ELSE IF button = "Income +20%"
    THEN [subs EXCEPT !.Income = map_income_ratio(
             shocked_ratio(in.annual_income, 12,
                           in.annual_fixed + in.annual_variable))]
    ELSE IF button = "Assets -20%"
    THEN [subs EXCEPT
            !.SLI = map_sli(
               shocked_ratio(in.investable_assets, 8, in.annual_withdrawals)),
            !.Expenses = map_emergency_months(
               shocked_ratio(in.investable_assets, 8 * MonthsPerYear,
                             in.annual_fixed + in.annual_variable))]
    ELSE [subs EXCEPT
            !.SLI = map_sli(
               shocked_ratio(in.investable_assets, 12, in.annual_withdrawals)),
            !.Expenses = map_emergency_months(
               shocked_ratio(in.investable_assets, 12 * MonthsPerYear,
                             in.annual_fixed + in.annual_variable))]

\* subs2: a copy of the sub-scores just computed with one entry replaced
subs2_of(button, subs, in) ==
    IF button = "Income -20%"
    THEN [subs EXCEPT !.Income = map_income_ratio(
             shocked_ratio(in.annual_income, 8,
                           in.annual_fixed + in.annual_variable))]
    ELSE IF button = "Income +20%"
    THEN [subs EXCEPT !.Income = map_income_ratio(
             shocked_ratio(in.annual_income, 12,
                           in.annual_fixed + in.annual_variable))]
    ELSE IF button = "Assets -20%"
    THEN [subs EXCEPT !.SLI = map_sli(
             shocked_ratio(in.investable_assets, 8, in.annual_withdrawals))]
    ELSE [subs EXCEPT !.SLI = map_sli(
             shocked_ratio(in.investable_assets, 12, in.annual_withdrawals))]

\* the block of the button that was clicked, if the results block runs
RunScenario(button, in) ==
    IF button \in Buttons /\ pc' = "shown"
    THEN \E sub2 \in {subs2_of(button, subscores', in)} :
         \E up \in BOOLEAN :
            scenario' = [button |-> button, subs2 |-> sub2,
                         new_capacity |-> compute_risk_capacity(sub2, up)]
    ELSE scenario' = NoScenario

\* one run of the script on the form's values, after a click on `button`
\* ("none": the run has another cause)
RunScript(submitted, in, button) ==
    /\ IF submitted THEN ShowResults(in) ELSE ShowNothing
    /\ seen' = IF seen = NoDict /\ pc' = "shown"
               THEN [inputs |-> in, outputs |-> Outputs']
               ELSE seen
    /\ RunScenario(button, in)

\* the page opens: the first script run, nothing clicked yet
Load ==
    /\ pc = "start"
    /\ RunScript(auto_update, inputs, "none")
    /\ UNCHANGED <<WEIGHTS, REQ_WEIGHTS, call, x, d, s, result, inputs,
                   auto_update, fp_tie_up>>

\* the form's values with one of investable_assets, annual_income and
\* annual_withdrawals edited to a higher amount
Raised(in) ==
    {r \in {[in EXCEPT !.investable_assets = a] :
                a \in {v \in AssetValues : v > in.investable_assets}}
            \cup {[in EXCEPT !.annual_income = a] :
                a \in {v \in IncomeValues : v > in.annual_income}}
            \cup {[in EXCEPT !.annual_withdrawals = a] :
                a \in {v \in WithdrawalValues : v > in.annual_withdrawals}} :
        OnGrid(r)}

\* the values the form is submitted with: the ones it holds, the widgets'
\* defaults, the ones of the first evaluation again, or the ones it holds
\* with one cushion raised
Submittable ==
    {inputs, DefaultInputs} \cup (IF seen = NoDict THEN {} ELSE {seen.inputs})
        \cup Raised(inputs)

\* mutant: the evaluation also rewrites two entries of the global WEIGHTS
Calculate_reweighting ==
    /\ pc \in {"shown", "hidden"}
    /\ \E in \in Submittable :
          /\ inputs' = in
          /\ RunScript(TRUE, in, "none")
    /\ WEIGHTS' = [WEIGHTS EXCEPT !.SLI = 30, !.Income = 15]
    /\ UNCHANGED <<REQ_WEIGHTS, call, x, d, s, result, auto_update, fp_tie_up>>
\* the form's Calculate button, pressed after editing the widgets or not
Calculate ==
    /\ pc \in {"shown", "hidden"}
    /\ \E in \in Submittable :
          /\ inputs' = in
          /\ RunScript(TRUE, in, "none")
    /\ UNCHANGED <<WEIGHTS, REQ_WEIGHTS, call, x, d, s, result, auto_update,
                   fp_tie_up>>

\* the auto-update checkbox: it flips and the script runs again
ToggleAutoUpdate ==
    /\ pc \in {"shown", "hidden"}
    /\ auto_update' = ~auto_update
    /\ RunScript(auto_update', inputs, "none")
    /\ UNCHANGED <<WEIGHTS, REQ_WEIGHTS, call, x, d, s, result, inputs,
                   fp_tie_up>>

\* a sensitivity button: the script runs again, and the form's own button
\* counts as not pressed
Click ==
    /\ pc = "shown"
    /\ \E button \in Buttons : RunScript(auto_update, inputs, button)
    /\ UNCHANGED <<WEIGHTS, REQ_WEIGHTS, call, x, d, s, result, inputs,
                   auto_update, fp_tie_up>>

Next ==
    \/ Load
    \/ Calculate
    \/ ToggleAutoUpdate
    \/ Click

\* the page, from its first load on
Spec == Init /\ [][Next]_vars

(***************************************************************************)
(* The alignment step on its own, applied to any pair of scores.           *)
(***************************************************************************)
\* every score with one decimal
Tenths == {n * (U \div 10) : n \in 0..1000}
\* requirement scores to compare them with
AlignRequirements == {0, 10 * U, 45 * U, 451 * (U \div 10), 90 * U, 100 * U}

InitAlign ==
    /\ InitGlobals
    /\ call = "alignment"
    /\ pc = "ready"
    /\ capacity_score \in Tenths
    /\ requirement_score \in AlignRequirements
    /\ diff = 0 /\ align_msg = NoAlignment
    /\ sli_value = 0 /\ income_ratio = 0 /\ months = 0
    /\ inputs = NoDict /\ auto_update = TRUE /\ fp_tie_up = NoDict
    /\ seen = NoDict
    /\ scenario = NoScenario
    /\ result = 0 /\ req_subscores = NoDict /\ error = "none"
    /\ x = 0 /\ d = 0 /\ s = "" /\ subscores = NoDict /\ NoReqArgs

Align ==
    /\ pc = "ready"
    /\ call = "alignment"
    /\ diff' = align_diff(capacity_score, requirement_score)
    /\ align_msg' = align_msg_of(diff')
    /\ pc' = "returned"
    /\ UNCHANGED <<WEIGHTS, REQ_WEIGHTS, call, args, result, req_subscores,
                   error, inputs, auto_update, fp_tie_up, sli_value,
                   income_ratio, months, capacity_score, requirement_score,
                   seen, scenario>>

NextAlign == Align

\* the alignment step, applied to any pair of scores
SpecAlign == InitAlign /\ [][NextAlign]_vars

(***************************************************************************)
(* Properties.                                                             *)
(***************************************************************************)
MapCalls == RealCalls \cup {"map_sli", "map_industry", "map_age", "map_dependents"}
InRange(v) == 0 <= v /\ v <= 100 * U
Returned(name) == pc = "returned" /\ call = name
ReqFactors == {"RRR", "RealReq", "Shortfall", "DrawPressure"}

\* C1: every mapping function, and each of the four inline sub-scores of
\* compute_risk_requirement, returns a value in [0,100] for every argument.
C1_SubscoresInRange ==
    /\ (pc = "returned" /\ call \in MapCalls) => InRange(result)
    /\ Returned("compute_risk_requirement") =>
          /\ DOMAIN req_subscores = ReqFactors
          /\ \A k \in ReqFactors : InRange(req_subscores[k])

\* a shortfall above 10 is capped at the top of the range
C1_Witness == Returned("map_shortfall") /\ x > 10 * AU /\ result = 100 * U

\* the exact weighted sum, 100 times the exact weighted average
ExactCapacitySum == SumOver(DOMAIN WEIGHTS, WEIGHTS, subscores)
ExactRequirementSum ==
    SumOver(DOMAIN REQ_WEIGHTS_local, REQ_WEIGHTS_local, req_subscores)
AllInRange(subs) == \A k \in DOMAIN subs : InRange(subs[k])
\* v is in [0,100], a multiple of 0.1, and within 0.05 of sum100 / 100
RoundedAverage(v, sum100) ==
    /\ InRange(v)
    /\ v % (U \div 10) = 0
    /\ 100 * v - sum100 <= 5 * U
    /\ sum100 - 100 * v <= 5 * U

\* C2: for sub-scores in [0,100] each aggregation returns a multiple of 0.1 in
\* [0,100] that is within 0.05 of the exact weighted average.
C2_ScoreRoundedAverage ==
    /\ (Returned("compute_risk_capacity") /\ AllInRange(subscores)) =>
          RoundedAverage(result, ExactCapacitySum)
    /\ Returned("compute_risk_requirement") =>
          RoundedAverage(result, ExactRequirementSum)

\* the rounding moved the score off the exact average
C2_Witness ==
    /\ Returned("compute_risk_capacity")
    /\ AllInRange(subscores)
    /\ 100 * result > ExactCapacitySum

\* C3: clamping and then rounding (the code) gives the score that rounding and
\* then clamping (the contract) gives, also for sub-scores outside [0,100].
C3_ClampRoundCommute ==
    /\ Returned("compute_risk_capacity") =>
          /\ result \in {clamp(round1(ExactCapacitySum \div 100, up)) : up \in BOOLEAN}
          /\ \A up \in BOOLEAN :
                compute_risk_capacity(subscores, up)
                    = clamp(round1(ExactCapacitySum \div 100, up))
    /\ Returned("compute_risk_requirement") =>
          /\ result \in {clamp(round1(ExactRequirementSum \div 100, up)) : up \in BOOLEAN}
          /\ \A up \in BOOLEAN :
                req_score(rrr, real_req_pct, shortfall_pct, draw_ratio, up)
                    = clamp(round1(ExactRequirementSum \div 100, up))

\* the average lies above the range and the clamp has acted
C3_Witness ==
    /\ Returned("compute_risk_capacity")
    /\ ExactCapacitySum > 100 * 100 * U
    /\ result = 100 * U

WeightSum(w) == SumOver(DOMAIN w, w, [k \in DOMAIN w |-> 1])
WeightsValid(w) == (\A k \in DOMAIN w : w[k] >= 0) /\ WeightSum(w) = 100

\* C4: every weight table holds the stated non-negative weights, which sum to
\* exactly 100, in every state.
C4_WeightsSumTo100 ==
    /\ WeightsValid(WEIGHTS)
    /\ WEIGHTS = [SLI |-> 25, Income |-> 20, Expenses |-> 15, Industry |-> 12,
                  Age |-> 12, Growth |-> 8, Dependents |-> 8]
    /\ WeightsValid(REQ_WEIGHTS)
    /\ <<REQ_WEIGHTS.RRR, REQ_WEIGHTS.RealReq, REQ_WEIGHTS.Shortfall,
         REQ_WEIGHTS.DrawImpact>> = <<40, 25, 20, 15>>
    /\ WeightsValid(REQ_WEIGHTS_local)
    /\ <<REQ_WEIGHTS_local.RRR, REQ_WEIGHTS_local.RealReq,
         REQ_WEIGHTS_local.Shortfall, REQ_WEIGHTS_local.DrawPressure>>
            = <<35, 25, 25, 15>>

\* both aggregations have run with the tables: four sub-scores of 90 average 90
C4_Witness ==
    /\ Returned("compute_risk_requirement")
    /\ \A k \in ReqFactors : req_subscores[k] = 90 * U
    /\ result = 90 * U

MissingFactor == ~(DOMAIN WEIGHTS \subseteq DOMAIN subscores)

\* C5: compute_risk_capacity on a sub-score set that lacks a key of WEIGHTS
\* raises an error and returns no score.
C5_MissingKeyRaises ==
    (call = "compute_risk_capacity" /\ pc # "ready" /\ MissingFactor) =>
        /\ pc = "raised"
        /\ error = "KeyError"

\* a call with two factors missing has raised
C5_Witness ==
    /\ call = "compute_risk_capacity"
    /\ pc = "raised"
    /\ Cardinality(DOMAIN subscores) = 5

\* C6 as stated: aggregation under a weight table that does not sum to 100
\* fails with an InvalidWeightTable error instead of returning a score.
C6_InvalidWeightsRaise ==
    (call = "compute_risk_capacity" /\ pc # "ready" /\ WeightSum(WEIGHTS) # 100) =>
        /\ pc = "raised"
        /\ error = "InvalidWeightTable"

\* C6 as amended: compute_risk_capacity does not validate the weight table;
\* under weights that do not sum to 100 it raises nothing and returns the
\* clamped, rounded weighted sum over 100, a multiple of 0.1 in [0,100].
C6_InvalidWeightsReturn ==
    (call = "compute_risk_capacity" /\ pc # "ready" /\ WeightSum(WEIGHTS) # 100) =>
        /\ pc = "returned"
        /\ error = "none"
        /\ result \in {round1(clamp(ExactCapacitySum \div 100), up) : up \in BOOLEAN}
        /\ InRange(result)
        /\ result % (U \div 10) = 0

\* weights summing to 105 and sub-scores of 100: the score is clamped to 100
C6_Witness ==
    /\ Returned("compute_risk_capacity")
    /\ WeightSum(WEIGHTS) = 105
    /\ \A k \in Factors : subscores[k] = 100 * U
    /\ result = 100 * U

\* C7: map_sli is monotonically non-decreasing.
C7_SliMonotone ==
    Returned("map_sli") =>
        \A y \in SliDom : (x <= y => result <= map_sli(y)) /\ (y <= x => map_sli(y) <= result)

\* an argument beyond the cap at 200, mapped to the maximum
C7_Witness == Returned("map_sli") /\ x > 200 * AU /\ result = 100 * U

\* C8: map_dependents is monotonically non-increasing over 0, 1, 2, ...
C8_DependentsMonotone ==
    Returned("map_dependents") =>
        \A d2 \in DependentsDom : (d <= d2 => map_dependents(d2) <= result)

\* five dependents map to the minimum
C8_Witness == Returned("map_dependents") /\ d = 5 /\ result = 15 * U

\* C9: map_age is monotonically non-increasing over the integer ages, and
\* every age above 65 maps to 10.
C9_AgeMonotone ==
    Returned("map_age") =>
        /\ \A b \in AgeDom : (d <= b => map_age(b) <= result)
        /\ (d > 65 => result = 10 * U)

\* an age past 65
C9_Witness == Returned("map_age") /\ d = 66 /\ result = 10 * U

\* the formula of the bracket that starts at an edge of map_sli
SliEdges == {1 * AU, 5 * AU, 20 * AU, 50 * AU}
SliNextBracket(edge) ==
    IF edge = 1 * AU THEN sli_bracket_1_5(edge)
    ELSE IF edge = 5 * AU THEN sli_bracket_5_20(edge)
    ELSE IF edge = 20 * AU THEN sli_bracket_20_50(edge)
    ELSE sli_bracket_over_50(edge)

\* C10 as stated: at each bracket edge 1, 5, 20, 50 map_sli returns the value
\* the next bracket's formula takes at that edge.
C10_SliContinuousAtEdges ==
    (Returned("map_sli") /\ x \in SliEdges) => result = SliNextBracket(x)

\* C10 as amended: map_sli is continuous at the edges 5, 20 and 50 (40, 80 and
\* 95); at the edge 1 it returns 0 while the (1,5] formula takes the value 1.
C10_SliContinuousAbove1 ==
    /\ (Returned("map_sli") /\ x \in SliEdges \ {1 * AU}) =>
          /\ result = SliNextBracket(x)
          /\ result = (IF x = 5 * AU THEN 40 ELSE IF x = 20 * AU THEN 80 ELSE 95) * U
    /\ (Returned("map_sli") /\ x = 1 * AU) =>
          result = 0 /\ SliNextBracket(x) = 1 * U

\* map_sli applied at the edge 20
C10_Witness == Returned("map_sli") /\ x = 20 * AU /\ result = 80 * U

\* the formula of the bracket that starts at an edge of map_income_ratio
\* (edges 1, 1.5 and 2.5)
IncomeEdges == {AU, (3 * AU) \div 2, (5 * AU) \div 2}
IncomeNextBracket(edge) ==
    IF edge = AU THEN income_bracket_1_15(edge)
    ELSE IF 2 * edge = 3 * AU THEN income_bracket_15_25(edge)
    ELSE income_bracket_over_25(edge)

\* C11: at each bracket edge 1, 1.5, 2.5 map_income_ratio returns the value
\* (10, 40, 75) that the next bracket's formula takes at that edge.
C11_IncomeContinuousAtEdges ==
    (Returned("map_income_ratio") /\ x \in IncomeEdges) =>
        /\ result = IncomeNextBracket(x)
        /\ result = (IF x = AU THEN 10 ELSE IF 2 * x = 3 * AU THEN 40 ELSE 75) * U

\* map_income_ratio applied at the edge 1.5
C11_Witness == Returned("map_income_ratio") /\ 2 * x = 3 * AU /\ result = 40 * U

\* the formula of the bracket that starts at an edge of map_emergency_months
MonthsEdges == {1 * AU, 3 * AU, 6 * AU}
MonthsNextBracket(edge) ==
    IF edge = 1 * AU THEN months_bracket_1_3(edge)
    ELSE IF edge = 3 * AU THEN months_bracket_3_6(edge)
    ELSE months_bracket_over_6(edge)

\* C12 as stated: at each bracket edge 1, 3, 6 map_emergency_months returns
\* the value the next bracket's formula takes at that edge.
C12_MonthsContinuousAtEdges ==
    (Returned("map_emergency_months") /\ x \in MonthsEdges) =>
        result = MonthsNextBracket(x)

\* C12 as amended: map_emergency_months is continuous at the edges 3 and 6
\* (40 and 70); at the edge 1 it returns 5 while the (1,3] formula takes the
\* value 20.
C12_MonthsContinuousAbove1 ==
    /\ (Returned("map_emergency_months") /\ x \in MonthsEdges \ {1 * AU}) =>
          /\ result = MonthsNextBracket(x)
          /\ result = (IF x = 3 * AU THEN 40 ELSE 70) * U
    /\ (Returned("map_emergency_months") /\ x = 1 * AU) =>
          result = 5 * U /\ MonthsNextBracket(x) = 20 * U

\* map_emergency_months applied at the edge 3
C12_Witness == Returned("map_emergency_months") /\ x = 3 * AU /\ result = 40 * U

\* the results block has run
Shown == call = "main" /\ pc = "shown"

\* the capacity inputs of the concrete scenario
CapacityScenario ==
    /\ Shown
    /\ inputs.age = 39 /\ inputs.dependents = 2
    /\ inputs.annual_income = 500000
    /\ inputs.annual_fixed = 30000 /\ inputs.annual_variable = 30000
    /\ inputs.industry = "Moderate" /\ inputs.expected_growth = 2 * AU
    /\ inputs.investable_assets = 500000 /\ inputs.annual_withdrawals = 10000

\* |v - hundredths / 100| <= half_width / 1000, for v in 1/scale units
About(v, hundredths, half_width, scale) ==
    /\ 1000 * v - 10 * hundredths * scale <= half_width * scale
    /\ 10 * hundredths * scale - 1000 * v <= half_width * scale

\* what the scenario's metrics and sub-scores are, apart from Income and Age
ScenarioCommon ==
    /\ sli_value = 50 * AU /\ subscores.SLI = 95 * U
    /\ About(income_ratio, 833, 5, AU)
    /\ months = 100 * AU /\ subscores.Expenses = 100 * U
    /\ subscores.Industry = 60 * U
    /\ subscores.Growth = 60 * U
    /\ subscores.Dependents = 50 * U

\* C13 as stated: for the scenario's capacity inputs the pipeline derives
\* SLI 50.0 (sub-score 95.0), IncomeRatio 8.33 (sub-score about 95.8),
\* EmergencyMonths 100.0 (sub-score 100.0) and the sub-scores Industry 60,
\* Age 50, Growth 60, Dependents 50.
C13_ScenarioSubscores ==
    CapacityScenario =>
        /\ ScenarioCommon
        /\ About(subscores.Income \div (U \div 100), 9580, 50, 100)
        /\ subscores.Age = 50 * U

\* C13 as amended: the same, with the Income sub-score about 94.4
\* (75 + (8.33 - 2.5) / 7.5 * 25) and the Age sub-score 75 (39 is in 31..40).
C13_ScenarioSubscoresAmended ==
    CapacityScenario =>
        /\ ScenarioCommon
        /\ About(subscores.Income \div (U \div 100), 9440, 50, 100)
        /\ subscores.Age = 75 * U

\* the scenario evaluated, with the Income and Age sub-scores the code gives
C13_Witness ==
    /\ CapacityScenario
    /\ inputs = DefaultInputs
    /\ subscores.Age = 75 * U
    /\ subscores.Income > 94 * U /\ subscores.Income < 95 * U

\* C14 as stated: for the scenario's capacity inputs the final capacity score
\* is 80.1.
C14_ScenarioCapacity == CapacityScenario => capacity_score = 801 * (U \div 10)

\* C14 as amended: for the scenario's capacity inputs the final capacity score
\* is 82.6 (the weighted average 82.64 rounded to one decimal).
C14_ScenarioCapacityAmended ==
    CapacityScenario => capacity_score = 826 * (U \div 10)

\* the scenario evaluated with the requirement inputs varied, score 82.6
C14_Witness ==
    /\ CapacityScenario
    /\ inputs.target_wealth = 0
    /\ capacity_score = 826 * (U \div 10)

\* C15: the alignment step computes diff = round(capacity - requirement, 1)
\* and puts every pair of scores in exactly one of three bands: diff >= 10 is
\* "exceeds" (reporting diff), -10 <= diff < 10 is "roughly matches"
\* (reporting diff), diff < -10 is "below" (reporting -diff); so diff = 10 is
\* "exceeds", diff = -10 is "roughly matches", and capacity 80.1 with
\* requirement 45.0 gives diff 35.1 in the "exceeds" band.
C15_AlignmentBands ==
    Returned("alignment") =>
        /\ diff = capacity_score - requirement_score
        /\ (diff >= 10 * U) = (align_msg.band = "exceeds")
        /\ (-(10 * U) <= diff /\ diff < 10 * U) = (align_msg.band = "matches")
        /\ (diff < -(10 * U)) = (align_msg.band = "below")
        /\ align_msg.band \in {"exceeds", "matches"} => align_msg.points = diff
        /\ align_msg.band = "below" => align_msg.points = -diff
        /\ diff = 10 * U => align_msg.band = "exceeds"
        /\ diff = -(10 * U) => align_msg.band = "matches"
        /\ (capacity_score = 801 * (U \div 10) /\ requirement_score = 45 * U) =>
              /\ diff = 351 * (U \div 10)
              /\ align_msg = [band |-> "exceeds", points |-> 351 * (U \div 10)]

\* the alignment of capacity 55.1 with requirement 45.1: diff is exactly 10
C15_Witness ==
    /\ Returned("alignment")
    /\ capacity_score = 551 * (U \div 10)
    /\ requirement_score = 451 * (U \div 10)
    /\ diff = 10 * U
    /\ align_msg.band = "exceeds"

\* C16: SLI = investable_assets / max(1.0, annual_withdrawals) for every pair
\* of non-negative inputs; with annual_withdrawals = 0 the denominator is 1 and
\* SLI equals investable_assets.
C16_SliDenominatorFloored ==
    Shown =>
        /\ sli_value * Max(1, inputs.annual_withdrawals)
              = inputs.investable_assets * AU
        /\ inputs.annual_withdrawals = 0 =>
              sli_value = inputs.investable_assets * AU

\* results shown for no withdrawals and 500000 of assets: SLI is 500000
C16_Witness ==
    /\ Shown
    /\ inputs.annual_withdrawals = 0
    /\ inputs.investable_assets = 500000
    /\ sli_value = 500000 * AU

\* zero in annual_withdrawals, total expenses, target_wealth,
\* current_portfolio and drawdown_tolerance
AllDenominatorsZero ==
    /\ inputs.annual_withdrawals = 0
    /\ inputs.annual_fixed + inputs.annual_variable = 0
    /\ inputs.target_wealth = 0
    /\ inputs.current_portfolio = 0
    /\ inputs.drawdown_tolerance = 0

\* C17: for every input of the form, zeros in the denominators included, the
\* evaluation raises no error and yields a capacity score and a requirement
\* score in [0,100], with every sub-score mapped to a value in [0,100].
C17_EvaluationTotal ==
    /\ call = "main" => (pc \in {"start", "shown", "hidden"} /\ error = "none")
    /\ Shown =>
          /\ InRange(capacity_score)
          /\ InRange(requirement_score)
          /\ DOMAIN subscores = Factors
          /\ \A k \in Factors : InRange(subscores[k])
          /\ DOMAIN req_subscores = ReqFactors
          /\ \A k \in ReqFactors : InRange(req_subscores[k])

\* results shown for inputs with a zero in every denominator
C17_Witness ==
    /\ Shown
    /\ AllDenominatorsZero
    /\ inputs.investable_assets = 500000
    /\ InRange(capacity_score) /\ InRange(requirement_score)

GoalScenario ==
    /\ Shown
    /\ inputs.target_wealth = 1500000
    /\ inputs.current_portfolio = 500000
    /\ inputs.horizon_years = 10

\* the scenario's required return in 1/100000 units (rounded up)
ScenarioRate == required_return(1500000, 500000, 10, 100000)

\* 1.11605^10 >= 3 and 1.11615^10 >= 3, in exact arithmetic
Reaches3At11605 == ReachesTarget(11605, 1500000, 500000, 10, 100000)
Reaches3At11615 == ReachesTarget(11615, 1500000, 500000, 10, 100000)

\* C19: for target_wealth 1500000, current_portfolio 500000 and horizon_years
\* 10 the required return (T / C)^(1 / n) - 1 is 0.1161 to four decimals, that
\* is (1 + RRR)^10 = 3: the rate lies between 0.11605 and 0.11615, and so does
\* the rrr of the evaluation within the resolution of its grid.
C19_RequiredReturn ==
    GoalScenario =>
        /\ 11605 < ScenarioRate /\ ScenarioRate <= 11615
        /\ ~Reaches3At11605 /\ Reaches3At11615
        /\ (rrr - 1) * 100000 < 11615 * DEC
        /\ rrr * 100000 > 11605 * DEC

\* the default inputs evaluated: rrr is above 11.6 percent
C19_Witness ==
    /\ GoalScenario
    /\ inputs = DefaultInputs
    /\ rrr * 1000 > 116 * DEC
    /\ req_subscores.RRR = 90 * U

StepTable(v, t1, t2, t3, s0, s1, s2, s3) ==
    IF v <= t1 THEN s0 * U
    ELSE IF v <= t2 THEN s1 * U
    ELSE IF v <= t3 THEN s2 * U
    ELSE s3 * U

\* the four step sub-scores of the values main passed
StepSubscores ==
    [RRR |-> StepTable(rrr_pct_of(rrr), 2 * AU, 5 * AU, 10 * AU, 10, 35, 65, 90),
     RealReq |-> StepTable(real_req_pct, 0, 2 * AU, 5 * AU, 10, 40, 70, 90),
     Shortfall |-> StepTable(shortfall_pct, 0, 2 * AU, 5 * AU, 10, 30, 60, 90),
     DrawPressure |-> StepTable(2 * draw_ratio, 1 * AU, 2 * AU, 4 * AU,
                                10, 40, 70, 90)]

\* a hundred times the step score, under the weights 35/25/25/15
StepTotal ==
    35 * StepSubscores.RRR + 25 * StepSubscores.RealReq
        + 25 * StepSubscores.Shortfall + 15 * StepSubscores.DrawPressure

\* a hundred times the score the fine mapping functions and the weights
\* 40/25/20/15 would give
FineTotal ==
    40 * map_rrr(rrr) + 25 * map_realreq(real_req_pct)
        + 20 * map_shortfall(Max(-(AU), Min(shortfall_pct, 20 * AU)))
        + 15 * map_drawimpact(draw_ratio)

C23_RrrTopBracket ==
    (Returned("map_rrr") /\ rrr_pct_of(x) > 15 * AU) =>
        /\ result = 85 * U
              + Min(rrr_pct_of(x) - 15 * AU, 30 * AU) * ((15 * U) \div (30 * AU))
        /\ (result = 100 * U) = (rrr_pct_of(x) >= 45 * AU)

\* C23 as amended: above 15 percent map_rrr rises linearly from 85 to 100 with
\* the excess over 15 capped at 15 percentage points (one point of score per
\* point of return), so it first reaches 100 at a required return of 30
\* percent and stays at 100 above it.
C23_RrrTopBracketAmended ==
    (Returned("map_rrr") /\ rrr_pct_of(x) > 15 * AU) =>
        /\ result = 85 * U
              + Min(rrr_pct_of(x) - 15 * AU, 15 * AU) * ((15 * U) \div (15 * AU))
        /\ (result = 100 * U) = (rrr_pct_of(x) >= 30 * AU)

\* map_rrr applied to a required return of exactly 30 percent
C23_Witness == Returned("map_rrr") /\ rrr_pct_of(x) = 30 * AU /\ result = 100 * U

\* C24: clamping the shortfall at zero before mapping changes nothing: for
\* every shortfall x the sub-score of max(0, x) is the sub-score of x, in the
\* inline table of compute_risk_requirement and in map_shortfall.
C24_ShortfallClampNeutral ==
    /\ Returned("map_shortfall") => result = map_shortfall(Max(0, x))
    /\ Returned("compute_risk_requirement") =>
          req_subscores.Shortfall = req_short_s(Max(0, shortfall_pct))

\* map_shortfall applied to a negative shortfall: 0, as for a shortfall of 0
C24_Witness ==
    Returned("map_shortfall") /\ x < 0 /\ result = 0 /\ map_shortfall(0) = 0

\* C25: the drawdown ratio is avg_drawdown / max(drawdown_tolerance, 0.0001);
\* with a tolerance of 0 and an avg_drawdown of at least 0.0003 the drawdown
\* sub-score is 90, and with avg_drawdown 0 the ratio is 0 and the sub-score
\* is 10 whatever the tolerance.
C25_DrawdownRatioFloored ==
    Shown =>
        LET tol == Max(inputs.drawdown_tolerance, DU \div InverseEpsilon)
        IN  /\ (draw_ratio - 1) * tol < inputs.avg_drawdown * AU
            /\ inputs.avg_drawdown * AU <= draw_ratio * tol
            /\ (inputs.drawdown_tolerance = 0
                  /\ inputs.avg_drawdown >= 3 * (DU \div InverseEpsilon)) =>
                  req_subscores.DrawPressure = 90 * U
            /\ inputs.avg_drawdown = 0 =>
                  (draw_ratio = 0 /\ req_subscores.DrawPressure = 10 * U)

\* an evaluation with tolerance 0 and avg_drawdown 0.0003: ratio 3, score 90
C25_Witness ==
    /\ Shown
    /\ inputs.drawdown_tolerance = 0
    /\ inputs.avg_drawdown = 3 * (DU \div InverseEpsilon)
    /\ draw_ratio = 3 * AU
    /\ req_subscores.DrawPressure = 90 * U

\* a hundred times the exact weighted averages of the sub-scores shown
CapacityTotal == SumOver(DOMAIN WEIGHTS, WEIGHTS, subscores)
RequirementTotal ==
    SumOver(DOMAIN REQ_WEIGHTS_local, REQ_WEIGHTS_local, req_subscores)

\* C26: the clamp to [0,100] never changes a score the program produces from
\* its inputs: the exact weighted capacity average lies between 8.95 and 95.6
\* and the requirement score between 10.0 and 90.0, so neither score reaches
\* 0 or 100.
C26_ClampNeverActs ==
    Shown =>
        /\ 895 * U <= CapacityTotal /\ CapacityTotal <= 9560 * U
        /\ clamp(CapacityTotal \div 100) = CapacityTotal \div 100
        /\ clamp(RequirementTotal \div 100) = RequirementTotal \div 100
        /\ 10 * U <= requirement_score /\ requirement_score <= 90 * U
        /\ 0 < capacity_score /\ capacity_score < 100 * U

\* the evaluation with the lowest sub-score of every factor: the capacity
\* average is 8.95 and the requirement score 10.0
C26_Witness ==
    /\ Shown
    /\ CapacityTotal = 895 * U
    /\ requirement_score = 10 * U

\* the evaluation with the highest sub-score of every factor: 95.6 and 90.0
C26_WitnessHigh ==
    /\ Shown
    /\ CapacityTotal = 9560 * U
    /\ requirement_score = 90 * U

\* the keys of the two pipelines' weight tables agree with the sub-score
\* sets, as far as C27 and its amendment both say
KeysCommon ==
    /\ DOMAIN WEIGHTS = DOMAIN subscores
    /\ Cardinality(DOMAIN WEIGHTS) = 7
    /\ DOMAIN REQ_WEIGHTS_local = DOMAIN req_subscores
    /\ Cardinality(DOMAIN REQ_WEIGHTS_local) = 4
    /\ Cardinality(DOMAIN REQ_WEIGHTS) = 4

\* C27 as stated: the seven keys of WEIGHTS are the keys of the capacity
\* sub-score set built in main, and the four keys of the module-level
\* REQ_WEIGHTS and of the local REQ_WEIGHTS are the keys of the sub-score set
\* compute_risk_requirement returns.
C27_WeightKeysMatch ==
    Shown =>
        /\ KeysCommon
        /\ DOMAIN REQ_WEIGHTS = DOMAIN req_subscores

\* C27 as amended: the same for WEIGHTS and for the local REQ_WEIGHTS; the
\* module-level REQ_WEIGHTS has four keys of which three are keys of the
\* returned sub-score set, while its fourth is "DrawImpact" where the
\* sub-score set has "DrawPressure".
C27_WeightKeysMatchAmended ==
    Shown =>
        /\ KeysCommon
        /\ DOMAIN REQ_WEIGHTS \ DOMAIN req_subscores = {"DrawImpact"}
        /\ DOMAIN req_subscores \ DOMAIN REQ_WEIGHTS = {"DrawPressure"}

\* an evaluation of the default inputs, with both sub-score sets built
C27_Witness ==
    /\ Shown
    /\ inputs = DefaultInputs
    /\ "Dependents" \in DOMAIN subscores
    /\ "DrawPressure" \in DOMAIN req_subscores
    /\ "DrawImpact" \in DOMAIN REQ_WEIGHTS

\* the form's values after the step are those before it but for one field
OnlyEdited(field) ==
    \A f \in DOMAIN inputs : f # field => inputs'[f] = inputs[f]

\* C28: end to end, with every other input held fixed, raising
\* investable_assets never lowers the final capacity score, raising
\* annual_income never lowers it, and raising annual_withdrawals never raises
\* it.
C28_CushionsMonotone ==
    [][(Shown /\ Shown') =>
          /\ (OnlyEdited("investable_assets")
                /\ inputs'.investable_assets > inputs.investable_assets) =>
                capacity_score' >= capacity_score
          /\ (OnlyEdited("annual_income")
                /\ inputs'.annual_income > inputs.annual_income) =>
                capacity_score' >= capacity_score
          /\ (OnlyEdited("annual_withdrawals")
                /\ inputs'.annual_withdrawals > inputs.annual_withdrawals) =>
                capacity_score' <= capacity_score]_vars

\* results for inputs that are the first evaluation's with the assets raised
\* from 30000 to 500000, and a higher capacity score than the first one's
C28_Witness ==
    /\ Shown
    /\ seen # NoDict
    /\ seen.inputs.investable_assets = 30000
    /\ inputs = [seen.inputs EXCEPT !.investable_assets = 500000]
    /\ capacity_score > seen.outputs.capacity_score

\* the one sub-score a sensitivity button replaces
ReplacedKey(button) ==
    IF button \in {"Income -20%", "Income +20%"} THEN "Income" ELSE "SLI"

\* C29: each sensitivity scenario works on a copy and replaces one sub-score
\* only: the Income buttons change just the Income entry, the Assets buttons
\* just the SLI entry, leaving the Expenses entry at its value for the
\* unshocked assets; the original sub-score set and the original capacity
\* score are after a click what they were before it.
C29_ScenarioOnCopy ==
    [][/\ scenario'.button \in Buttons =>
             /\ Shown'
             /\ DOMAIN scenario'.subs2 = DOMAIN subscores'
             /\ \A k \in DOMAIN subscores' \ {ReplacedKey(scenario'.button)} :
                   scenario'.subs2[k] = subscores'[k]
             /\ scenario'.subs2.Expenses = map_emergency_months(months')
       /\ (Shown /\ Shown' /\ inputs' = inputs) =>
             /\ subscores' = subscores
             /\ capacity_score' = capacity_score]_vars

\* "Assets -20%" clicked after another scenario: the SLI entry of the copy is
\* lower than the original's, the other six are the original's, and the
\* capacity written is lower than the original capacity score
C29_Witness ==
    /\ Shown
    /\ scenario.button = "Assets -20%"
    /\ scenario.subs2.SLI < subscores.SLI
    /\ \A k \in DOMAIN subscores \ {"SLI"} : scenario.subs2[k] = subscores[k]
    /\ scenario.new_capacity < capacity_score
    /\ seen # NoDict /\ inputs = seen.inputs
    /\ capacity_score = seen.outputs.capacity_score

====
